---------------------------- MODULE Spec2Model ----------------------------
(***************************************************************************)
(* A model of the kame editor: the gap buffer (src/src/buffer.rs), the     *)
(* undo manager (src/src/undo.rs), the incremental search and the message  *)
(* dispatcher (src/src/editor.rs) and the main loop (src/src/main.rs).     *)
(*                                                                         *)
(* Bytes are the integers 0..255, strings are sequences of bytes holding   *)
(* UTF-8, chars are Unicode scalar values.  The byte vector of the buffer  *)
(* is kept as its length plus the map of its non-NULL cells: a cell that   *)
(* is not in the map holds NULL.  A panic of the program is the field      *)
(* panic of the value an operation returns; every operation applied to a   *)
(* panicked value returns it unchanged.                                    *)
(***************************************************************************)
EXTENDS Integers, Sequences, FiniteSets, TLC

---------------------------------------------------------------------------
(* Program constants *)

DEFAULT_GAP_LEN == 1024

NULL == 0

SIZE_OF_CHAR == 4

NEWLINE == 10

DIRTY_MASK == 1

SAVED_MASK == 2

MANUAL_POPUP_MASK == 4

PROMPT_MASK == 8

SPACE == 32

TAB_WIDTH == 4

---------------------------------------------------------------------------
(* UTF-8: str::from_utf8, String::from(char), str::chars, String::pop *)

Min(a, b) == IF a < b THEN a ELSE b

Max(a, b) == IF a > b THEN a ELSE b

SatSub(a, b) == IF a > b THEN a - b ELSE 0

IsCont(b) == b >= 128 /\ b <= 191

\* Length of the well-formed UTF-8 sequence that starts at s[i], 0 if none does.
Utf8SeqLen(s, i) ==
  LET n  == Len(s)
      b0 == s[i]
      b1 == IF i + 1 <= n THEN s[i + 1] ELSE 0
      b2 == IF i + 2 <= n THEN s[i + 2] ELSE 0
      b3 == IF i + 3 <= n THEN s[i + 3] ELSE 0
  IN  IF b0 < 128 THEN 1
      ELSE IF b0 >= 194 /\ b0 <= 223
        THEN (IF IsCont(b1) THEN 2 ELSE 0)
      ELSE IF b0 = 224
        THEN (IF b1 >= 160 /\ b1 <= 191 /\ IsCont(b2) THEN 3 ELSE 0)
      ELSE IF (b0 >= 225 /\ b0 <= 236) \/ b0 = 238 \/ b0 = 239
        THEN (IF IsCont(b1) /\ IsCont(b2) THEN 3 ELSE 0)
      ELSE IF b0 = 237
        THEN (IF b1 >= 128 /\ b1 <= 159 /\ IsCont(b2) THEN 3 ELSE 0)
      ELSE IF b0 = 240
        THEN (IF b1 >= 144 /\ b1 <= 191 /\ IsCont(b2) /\ IsCont(b3) THEN 4 ELSE 0)
      ELSE IF b0 >= 241 /\ b0 <= 243
        THEN (IF IsCont(b1) /\ IsCont(b2) /\ IsCont(b3) THEN 4 ELSE 0)
      ELSE IF b0 = 244
        THEN (IF b1 >= 128 /\ b1 <= 143 /\ IsCont(b2) /\ IsCont(b3) THEN 4 ELSE 0)
      ELSE 0

RECURSIVE Utf8From(_, _)
Utf8From(s, i) ==
  IF i > Len(s) THEN TRUE
  ELSE LET k == Utf8SeqLen(s, i)
       IN  IF k = 0 THEN FALSE ELSE Utf8From(s, i + k)

\* str::from_utf8(s).is_ok()
IsUtf8(s) == Utf8From(s, 1)

\* String::from(c).as_bytes(): the UTF-8 encoding of the scalar value c
Encode(c) ==
  IF c < 128 THEN <<c>>
  ELSE IF c < 2048 THEN <<192 + (c \div 64), 128 + (c % 64)>>
  ELSE IF c < 65536
    THEN <<224 + (c \div 4096), 128 + ((c \div 64) % 64), 128 + (c % 64)>>
  ELSE <<240 + (c \div 262144), 128 + ((c \div 4096) % 64),
         128 + ((c \div 64) % 64), 128 + (c % 64)>>

\* The scalar value of the well-formed sequence of k bytes at s[i]
DecodeAt(s, i, k) ==
  IF k = 1 THEN s[i]
  ELSE IF k = 2 THEN (s[i] - 192) * 64 + (s[i + 1] - 128)
  ELSE IF k = 3
    THEN (s[i] - 224) * 4096 + (s[i + 1] - 128) * 64 + (s[i + 2] - 128)
  ELSE (s[i] - 240) * 262144 + (s[i + 1] - 128) * 4096
         + (s[i + 2] - 128) * 64 + (s[i + 3] - 128)

RECURSIVE CharsFrom(_, _)
CharsFrom(s, i) ==
  IF i > Len(s) THEN <<>>
  ELSE LET k == Utf8SeqLen(s, i)
       IN  <<DecodeAt(s, i, k)>> \o CharsFrom(s, i + k)

\* str::chars() of a string (valid UTF-8 by the type's invariant)
Chars(s) == CharsFrom(s, 1)

\* Index of the first byte of the last char of the non-empty string s
RECURSIVE LastCharStart(_, _)
LastCharStart(s, i) ==
  IF i <= 1 \/ ~IsCont(s[i]) THEN i ELSE LastCharStart(s, i - 1)

\* String::pop(): the string without its last char (unchanged when empty)
StringPop(s) ==
  IF Len(s) = 0 THEN s ELSE SubSeq(s, 1, LastCharStart(s, Len(s)) - 1)

---------------------------------------------------------------------------
(* Buffer (src/src/buffer.rs) *)

\* self.bytes[i] of an index in range
ByteAt(b, i) == IF i \in DOMAIN b.bytes THEN b.bytes[i] ELSE NULL

\* self.bytes[i] = v of an index in range
WriteByte(b, i, v) ==
  [b EXCEPT !.bytes =
     IF v = NULL
       THEN [k \in (DOMAIN b.bytes) \ {i} |-> b.bytes[k]]
       ELSE [k \in (DOMAIN b.bytes) \cup {i} |-> IF k = i THEN v ELSE b.bytes[k]]]

\* &self.bytes[lo..hi] of a range within the vector
Slice(b, lo, hi) == [k \in 1..(hi - lo) |-> ByteAt(b, lo + k - 1)]

Panic(b) == [b EXCEPT !.panic = TRUE]

\* Buffer::init(s): the gap first, the text after it
BufferInit(s) ==
  [iptr    |-> 0,
   gap_len |-> DEFAULT_GAP_LEN,
   len     |-> DEFAULT_GAP_LEN + Len(s),
   bytes   |-> [k \in {DEFAULT_GAP_LEN + j - 1 : j \in {x \in 1..Len(s) : s[x] # NULL}}
                  |-> s[k - DEFAULT_GAP_LEN + 1]],
   panic   |-> FALSE]

\* Buffer::before_insertion_point as the observer of a state sees it
BeforeGap(b) == Slice(b, 0, Min(b.iptr, b.len))

\* Buffer::after_insertion_point as the observer of a state sees it
AfterGap(b) == Slice(b, Min(b.iptr + b.gap_len, b.len), b.len)

\* Buffer::to_string without the decoding: the logical content
Logical(b) == BeforeGap(b) \o AfterGap(b)

RECURSIVE MoveFwdProbe(_, _, _)
MoveFwdProbe(b, i, j) ==
  IF j >= SIZE_OF_CHAR THEN Panic(b)
  ELSE IF i + j >= b.len THEN Panic(b)
  ELSE LET w == WriteByte(b, b.iptr + j, ByteAt(b, i + j))
       IN  IF IsUtf8(Slice(w, i, i + j + 1))
             THEN [w EXCEPT !.iptr = @ + j + 1]
             ELSE MoveFwdProbe(w, i, j + 1)

\* move_ptr_forward that steps over one byte whatever codepoint follows
MovePtrForwardOneByte(b) ==
  IF b.panic THEN b
  ELSE IF b.iptr + b.gap_len = b.len THEN b
  ELSE [WriteByte(b, b.iptr, ByteAt(b, b.iptr + b.gap_len)) EXCEPT !.iptr = @ + 1]

move_ptr_forward(b) ==
  IF b.panic THEN b
  ELSE IF b.iptr + b.gap_len = b.len THEN b
  ELSE MoveFwdProbe(b, b.iptr + b.gap_len, 0)

RECURSIVE MoveBwdProbe(_, _, _)
MoveBwdProbe(b, i, j) ==
  IF j >= SIZE_OF_CHAR THEN Panic(b)
  ELSE IF j > i \/ i - j + b.gap_len >= b.len THEN Panic(b)
  ELSE LET w == WriteByte(b, i - j + b.gap_len, ByteAt(b, i - j))
       IN  IF IsUtf8(Slice(w, i - j, i + 1))
             THEN [w EXCEPT !.iptr = @ - (j + 1)]
             ELSE MoveBwdProbe(w, i, j + 1)

move_ptr_backward(b) ==
  IF b.panic THEN b
  ELSE IF b.iptr = 0 THEN b
  ELSE MoveBwdProbe(b, b.iptr - 1, 0)

RECURSIVE RepeatBackward(_, _)
RepeatBackward(b, k) ==
  IF k = 0 THEN b ELSE RepeatBackward(move_ptr_backward(b), k - 1)

RECURSIVE RepeatForward(_, _)
RepeatForward(b, k) ==
  IF k = 0 THEN b ELSE RepeatForward(move_ptr_forward(b), k - 1)

jump(b, n) ==
  IF b.panic THEN b
  ELSE IF n < b.iptr THEN RepeatBackward(b, b.iptr - n)
  ELSE RepeatForward(b, n - b.iptr)

\* The growth step of insert: the tail moves to the end of the doubled vector
\* The growth step that doubles the buffer and leaves the tail where it was
GrowLeavesTail(b) == [b EXCEPT !.len = @ * 2, !.gap_len = @ + b.len]

Grow(b) ==
  LET old_len == b.len
      tail    == b.iptr + b.gap_len
  IN  [b EXCEPT
         !.len = old_len * 2,
         !.bytes = [k \in {x \in DOMAIN b.bytes : x < tail}
                            \cup {x + old_len : x \in {y \in DOMAIN b.bytes : y >= tail}}
                      |-> IF k \in DOMAIN b.bytes /\ k < tail
                            THEN b.bytes[k] ELSE b.bytes[k - old_len]],
         !.gap_len = @ + old_len]

RECURSIVE WriteBytes(_, _, _, _)
\* for i in 0..Len(s): bytes[at + i] = s[i]; an index out of range panics
WriteBytes(b, at, s, i) ==
  IF b.panic \/ i > Len(s) THEN b
  ELSE IF at + i - 1 >= b.len THEN Panic(b)
  ELSE WriteBytes(WriteByte(b, at + i - 1, s[i]), at, s, i + 1)

\* self.iptr += n; self.gap_len -= n
Advance(w, n) ==
  IF w.panic THEN w ELSE [w EXCEPT !.iptr = @ + n, !.gap_len = @ - n]

\* insert after the growth step, writing past the gap instead of into it
InsertBytesPastGap(g, s) ==
  Advance(WriteBytes(g, g.iptr + g.gap_len, s, 1), Len(s))

\* insert after the growth step: the assertion, the bytes written, the gap moved
InsertBytes(g, s) ==
  IF g.gap_len < SIZE_OF_CHAR THEN Panic(g)
  ELSE Advance(WriteBytes(g, g.iptr, s, 1), Len(s))

insert(b, c) ==
  IF b.panic THEN b
  ELSE InsertBytes(IF b.gap_len < b.len \div 4 THEN Grow(b) ELSE b, Encode(c))

\* self.gap_len = (self.gap_len + n).min(self.bytes.len())
GrowGap(j, n) ==
  IF j.panic THEN j ELSE [j EXCEPT !.gap_len = Min(@ + n, j.len)]

revert_insert(b, prev_iptr, n) == GrowGap(jump(b, prev_iptr), n)

\* self.gap_len = self.gap_len.saturating_sub(n)
ShrinkGap(j, n) ==
  IF j.panic THEN j ELSE [j EXCEPT !.gap_len = SatSub(@, n)]

\* self.iptr = new_iptr
SetIptr(w, n) == IF w.panic THEN w ELSE [w EXCEPT !.iptr = @ + n]

\* The loop of revert_delete_before_ptr and the move of iptr
RestoreBefore(g, deleted) ==
  IF g.panic THEN g ELSE SetIptr(WriteBytes(g, g.iptr, deleted, 1), Len(deleted))

revert_delete_before_ptr(b, prev_iptr, deleted) ==
  RestoreBefore(ShrinkGap(jump(b, prev_iptr), Len(deleted)), deleted)

RECURSIVE DelBeforeProbe(_, _, _, _)
\* k counts the iterations; res is pushed in the order the bytes are visited
DelBeforeProbe(b, i, res, k) ==
  IF k >= SIZE_OF_CHAR THEN [buf |-> Panic(b), some |-> FALSE, res |-> <<>>]
  ELSE LET r == Append(res, ByteAt(b, i))
       IN  IF IsUtf8(Slice(b, i, b.iptr))
             THEN [buf  |-> [b EXCEPT !.gap_len = @ + (b.iptr - i), !.iptr = i],
                   some |-> TRUE,
                   res  |-> r]
             ELSE DelBeforeProbe(b, SatSub(i, 1), r, k + 1)

delete_before_ptr(b) ==
  IF b.panic \/ b.iptr = 0 THEN [buf |-> b, some |-> FALSE, res |-> <<>>]
  ELSE DelBeforeProbe(b, SatSub(b.iptr, 1), <<>>, 0)

\* The loop of revert_delete_after_ptr
RestoreAfter(g, deleted) ==
  IF g.panic THEN g ELSE WriteBytes(g, g.iptr + g.gap_len, deleted, 1)

revert_delete_after_ptr(b, prev_iptr, deleted) ==
  RestoreAfter(ShrinkGap(jump(b, prev_iptr), Len(deleted)), deleted)

RECURSIVE DelAfterProbe(_, _, _, _)
DelAfterProbe(b, i, res, j) ==
  IF j >= SIZE_OF_CHAR THEN [buf |-> Panic(b), some |-> FALSE, res |-> <<>>]
  ELSE IF i >= b.len \/ i + j >= b.len
    THEN [buf |-> Panic(b), some |-> FALSE, res |-> <<>>]
  ELSE LET r == Append(res, ByteAt(b, i))
       IN  IF IsUtf8(Slice(b, i, i + j + 1))
             THEN [buf  |-> [b EXCEPT !.gap_len = Min(@ + j + 1, b.len)],
                   some |-> TRUE,
                   res  |-> r]
             ELSE DelAfterProbe(b, i, r, j + 1)

delete_after_ptr(b) ==
  IF b.panic \/ b.iptr + b.gap_len = b.len
    THEN [buf |-> b, some |-> FALSE, res |-> <<>>]
    ELSE DelAfterProbe(b, b.iptr + b.gap_len, <<>>, 0)

---------------------------------------------------------------------------
(* Command and UndoManager (src/src/undo.rs) *)

Insert(i, s) == [kind |-> "Insert", at |-> i, data |-> s]

DeleteBefore(i, d) == [kind |-> "DeleteBefore", at |-> i, data |-> d]

DeleteAfter(i, d) == [kind |-> "DeleteAfter", at |-> i, data |-> d]

Checkpoint == [kind |-> "Checkpoint", at |-> 0, data |-> <<>>]

\* UndoManager::new
UndoManagerNew == [undos |-> <<>>, redos |-> <<>>]

\* The match of push with the bytes of merged DeleteBefore commands concatenated
\* in the order of arrival
MergeDeleteBeforeSwapped(last_cmd, cmd) ==
  IF last_cmd.kind = "DeleteBefore"
    THEN IF cmd.kind = "DeleteBefore" /\ cmd.at + Len(cmd.data) = last_cmd.at
           THEN [accumulate |-> TRUE,
                 final_cmd  |-> DeleteBefore(cmd.at, last_cmd.data \o cmd.data)]
           ELSE [accumulate |-> FALSE, final_cmd |-> cmd]
  ELSE IF last_cmd.kind = "DeleteAfter"
    THEN IF cmd.kind = "DeleteAfter" /\ cmd.at = last_cmd.at
           THEN [accumulate |-> TRUE,
                 final_cmd  |-> DeleteAfter(cmd.at, last_cmd.data \o cmd.data)]
           ELSE [accumulate |-> FALSE, final_cmd |-> cmd]
  ELSE IF last_cmd.kind = "Insert"
    THEN IF cmd.kind = "Insert" /\ last_cmd.at + Len(last_cmd.data) = cmd.at
           THEN [accumulate |-> TRUE,
                 final_cmd  |-> Insert(last_cmd.at, last_cmd.data \o cmd.data)]
           ELSE [accumulate |-> FALSE, final_cmd |-> cmd]
  ELSE [accumulate |-> TRUE, final_cmd |-> cmd]

\* The match of push: the command to store and whether it replaces the top
Merge(last_cmd, cmd) ==
  IF last_cmd.kind = "DeleteBefore"
    THEN IF cmd.kind = "DeleteBefore" /\ cmd.at + Len(cmd.data) = last_cmd.at
           THEN [accumulate |-> TRUE,
                 final_cmd  |-> DeleteBefore(cmd.at, cmd.data \o last_cmd.data)]
           ELSE [accumulate |-> FALSE, final_cmd |-> cmd]
  ELSE IF last_cmd.kind = "DeleteAfter"
    THEN IF cmd.kind = "DeleteAfter" /\ cmd.at = last_cmd.at
           THEN [accumulate |-> TRUE,
                 final_cmd  |-> DeleteAfter(cmd.at, last_cmd.data \o cmd.data)]
           ELSE [accumulate |-> FALSE, final_cmd |-> cmd]
  ELSE IF last_cmd.kind = "Insert"
    THEN IF cmd.kind = "Insert" /\ last_cmd.at + Len(last_cmd.data) = cmd.at
           THEN [accumulate |-> TRUE,
                 final_cmd  |-> Insert(last_cmd.at, last_cmd.data \o cmd.data)]
           ELSE [accumulate |-> FALSE, final_cmd |-> cmd]
  ELSE [accumulate |-> TRUE, final_cmd |-> cmd]

Pop(q) == SubSeq(q, 1, Len(q) - 1)

Top(q) == q[Len(q)]

\* push with the clearing of the redo stack forgotten
PushKeepsRedos(um, cmd) ==
  LET m == IF um.undos = <<>>
             THEN [accumulate |-> FALSE, final_cmd |-> cmd]
             ELSE Merge(Top(um.undos), cmd)
      kept == IF m.accumulate THEN Pop(um.undos) ELSE um.undos
  IN  [undos |-> Append(kept, m.final_cmd), redos |-> um.redos]

\* push with the Checkpoint on top left in place under the incoming command
PushKeepsCheckpoint(um, cmd) ==
  LET m == IF um.undos = <<>>
             THEN [accumulate |-> FALSE, final_cmd |-> cmd]
             ELSE Merge(Top(um.undos), cmd)
      kept == IF m.accumulate /\ Top(um.undos).kind # "Checkpoint"
                THEN Pop(um.undos) ELSE um.undos
  IN  [undos |-> Append(kept, m.final_cmd), redos |-> <<>>]

push(um, cmd) ==
  LET m == IF um.undos = <<>>
             THEN [accumulate |-> FALSE, final_cmd |-> cmd]
             ELSE Merge(Top(um.undos), cmd)
      kept == IF m.accumulate THEN Pop(um.undos) ELSE um.undos
  IN  [undos |-> Append(kept, m.final_cmd), redos |-> <<>>]

\* The buffer after the inverse of cmd
Revert(buf, cmd) ==
  IF cmd.kind = "Insert" THEN revert_insert(buf, cmd.at, Len(cmd.data))
  ELSE IF cmd.kind = "DeleteBefore"
    THEN revert_delete_before_ptr(buf, cmd.at, cmd.data)
  ELSE IF cmd.kind = "DeleteAfter"
    THEN revert_delete_after_ptr(buf, cmd.at, cmd.data)
  ELSE buf

\* undo that queues the undone command under the redo stack
UndoQueuesRedo(um, buf) ==
  IF um.undos = <<>> THEN [um |-> um, buf |-> buf]
  ELSE [um  |-> [undos |-> Pop(um.undos),
                 redos |-> <<Top(um.undos)>> \o um.redos],
        buf |-> Revert(buf, Top(um.undos))]

\* UndoManager::undo: the manager and the buffer after it
undo(um, buf) ==
  IF um.undos = <<>> THEN [um |-> um, buf |-> buf]
  ELSE LET cmd == Top(um.undos)
       IN  [um  |-> [undos |-> Pop(um.undos), redos |-> Append(um.redos, cmd)],
            buf |-> Revert(buf, cmd)]

RECURSIVE InsertAll(_, _, _)
InsertAll(buf, cs, i) ==
  IF i > Len(cs) THEN buf ELSE InsertAll(insert(buf, cs[i]), cs, i + 1)

RECURSIVE RepeatDeleteBefore(_, _)
RepeatDeleteBefore(buf, k) ==
  IF k = 0 THEN buf ELSE RepeatDeleteBefore(delete_before_ptr(buf).buf, k - 1)

RECURSIVE RepeatDeleteAfter(_, _)
RepeatDeleteAfter(buf, k) ==
  IF k = 0 THEN buf ELSE RepeatDeleteAfter(delete_after_ptr(buf).buf, k - 1)

\* The buffer after cmd is applied again
Replay(buf, cmd) ==
  IF cmd.kind = "Insert" THEN InsertAll(jump(buf, cmd.at), Chars(cmd.data), 1)
  ELSE IF cmd.kind = "DeleteBefore"
    THEN RepeatDeleteBefore(jump(buf, cmd.at + Len(cmd.data)), Len(cmd.data))
  ELSE IF cmd.kind = "DeleteAfter"
    THEN RepeatDeleteAfter(jump(buf, cmd.at), Len(cmd.data))
  ELSE buf

\* UndoManager::redo: the manager and the buffer after it
redo(um, buf) ==
  IF um.redos = <<>> THEN [um |-> um, buf |-> buf]
  ELSE LET cmd == Top(um.redos)
       IN  [um  |-> [undos |-> Append(um.undos, cmd), redos |-> Pop(um.redos)],
            buf |-> Replay(buf, cmd)]

---------------------------------------------------------------------------
(* ISearch (src/src/editor.rs) *)

None == [some |-> FALSE, id |-> 0]

Some(i) == [some |-> TRUE, id |-> i]

ISearchNew == [term |-> <<>>, ids |-> <<>>, current |-> 0]

\* ISearch::clear
ISearchClear(is) == [term |-> <<>>, ids |-> <<>>, current |-> 0]

RECURSIVE MatchFromOverlapping(_, _, _)
\* match_indices with the search resumed one byte after the start of a match
MatchFromOverlapping(s, t, i) ==
  IF i + Len(t) > Len(s) THEN <<>>
  ELSE IF SubSeq(s, i + 1, i + Len(t)) = t
    THEN <<i>> \o MatchFromOverlapping(s, t, i + 1)
    ELSE MatchFromOverlapping(s, t, i + 1)

RECURSIVE MatchFrom(_, _, _)
\* str::match_indices of a non-empty pattern: the 0-based byte offsets of the
\* occurrences found scanning from offset i, each search resuming after a match
MatchFrom(s, t, i) ==
  IF i + Len(t) > Len(s) THEN <<>>
  ELSE IF SubSeq(s, i + 1, i + Len(t)) = t
    THEN <<i>> \o MatchFrom(s, t, i + Len(t))
    ELSE MatchFrom(s, t, i + 1)

MatchIndices(s, t) == MatchFrom(s, t, 0)

\* ISearch::run with d = Some(c) (push TRUE) or None (push FALSE):
\* the search state, the offset returned, and whether it panicked
\* The end of run: ids stored, self.ids[self.current] returned
\* run once the matches are collected, keeping the old match list when the
\* new term has no match
RunResultKeepsOldIds(is, term, ids) ==
  IF ids = <<>>
    THEN [is |-> [is EXCEPT !.term = term], ret |-> None, panic |-> FALSE]
  ELSE IF is.current >= Len(ids)
    THEN [is |-> is, ret |-> None, panic |-> TRUE]
  ELSE [is |-> [term |-> term, ids |-> ids, current |-> is.current],
        ret |-> Some(ids[is.current + 1]), panic |-> FALSE]

RunResult(is, term, ids) ==
  IF ids = <<>>
    THEN [is |-> [term |-> term, ids |-> ids, current |-> is.current],
          ret |-> None, panic |-> FALSE]
  ELSE IF is.current >= Len(ids)
    THEN [is |-> is, ret |-> None, panic |-> TRUE]
  ELSE [is |-> [term |-> term, ids |-> ids, current |-> is.current],
        ret |-> Some(ids[is.current + 1]), panic |-> FALSE]

\* run once the term is changed
RunTerm(is, buf, term) ==
  IF term = <<>>
    THEN [is |-> ISearchClear(is), ret |-> None, panic |-> FALSE]
  ELSE IF buf.iptr + buf.gap_len > buf.len \/ ~IsUtf8(Logical(buf))
    THEN [is |-> is, ret |-> None, panic |-> TRUE]
  ELSE RunResult(is, term, MatchIndices(Logical(buf), term))

run(is, buf, push_c, c) ==
  RunTerm(is, buf, IF push_c THEN is.term \o Encode(c) ELSE StringPop(is.term))

\* fetch_next with the wrap-around forgotten: the cursor stops at the last match
FetchNextNoWrap(is) ==
  IF is.ids = <<>> THEN [is |-> is, ret |-> None]
  ELSE LET cur == Min(is.current + 1, Len(is.ids) - 1)
       IN  [is |-> [is EXCEPT !.current = cur], ret |-> Some(is.ids[cur + 1])]

\* ISearch::fetch_next
fetch_next(is) ==
  IF is.ids = <<>> THEN [is |-> is, ret |-> None]
  ELSE LET cur == (is.current + 1) % Len(is.ids)
       IN  [is |-> [is EXCEPT !.current = cur], ret |-> Some(is.ids[cur + 1])]

---------------------------------------------------------------------------
(* Editor (src/src/editor.rs) *)

\* Editor::new(buffer, path)
EditorNew(text) ==
  [flags        |-> {},
   buffer       |-> BufferInit(text),
   isearch      |-> ISearchNew,
   undo_manager |-> UndoManagerNew,
   top          |-> 0,
   panic        |-> FALSE]

Panicked(e) == e.panic \/ e.buffer.panic

is_prompted(e) == PROMPT_MASK \in e.flags

is_in_manual_popup(e) == MANUAL_POPUP_MASK \in e.flags

is_modified(e) == DIRTY_MASK \in e.flags

is_saved(e) == SAVED_MASK \in e.flags

toggle_popup(e) ==
  [e EXCEPT !.flags = IF MANUAL_POPUP_MASK \in @
                        THEN @ \ {MANUAL_POPUP_MASK} ELSE @ \cup {MANUAL_POPUP_MASK}]

\* toggle_prompt with the clearing of the search state forgotten
TogglePromptKeepsSearch(e) ==
  [e EXCEPT !.flags = IF PROMPT_MASK \in @ THEN @ \ {PROMPT_MASK}
                                             ELSE @ \cup {PROMPT_MASK}]

toggle_prompt(e) ==
  [e EXCEPT !.flags = IF PROMPT_MASK \in @
                        THEN @ \ {PROMPT_MASK} ELSE @ \cup {PROMPT_MASK},
            !.isearch = ISearchClear(@)]

RECURSIVE ColsUntilNewline(_, _)
\* The number of bytes of s from index i up to the first NEWLINE
ColsUntilNewline(s, i) ==
  IF i > Len(s) \/ s[i] = NEWLINE THEN 0 ELSE 1 + ColsUntilNewline(s, i + 1)

RECURSIVE ColsSinceNewline(_, _)
\* The number of bytes of s from index i back to the last NEWLINE
ColsSinceNewline(s, i) ==
  IF i < 1 \/ s[i] = NEWLINE THEN 0 ELSE 1 + ColsSinceNewline(s, i - 1)

\* The loop over after_insertion_point() of cut_to_eol, jump_to_eol, jump_to_next_line
ColsAfter(b) == ColsUntilNewline(AfterGap(b), 1)

\* The loop over before_insertion_point().iter().rev()
ColsBefore(b) == ColsSinceNewline(BeforeGap(b), b.iptr)

\* after_insertion_point() panics when the gap reaches past the vector
AfterPanics(b) == b.iptr + b.gap_len > b.len

\* Editor::get_current_point: (cols, rows)
get_current_point(e) ==
  LET s == BeforeGap(e.buffer)
  IN  [cols |-> ColsSinceNewline(s, Len(s)),
       rows |-> Cardinality({i \in 1..Len(s) : s[i] = NEWLINE})]

\* make_cursor_visible that scrolls by half a page and no further
MakeCursorVisibleHalfPage(e, point, height) ==
  IF point.rows >= e.top + height
    THEN [e EXCEPT !.top = @ + height \div 2]
  ELSE IF point.rows < e.top
    THEN [e EXCEPT !.top = SatSub(@, height \div 2)]
  ELSE e

\* Editor::make_cursor_visible: the editor after it (the new top)
make_cursor_visible(e, point, height) ==
  LET adjust_window == height \div 2
  IN  IF point.rows >= e.top + height
        THEN [e EXCEPT !.top = Max(@ + adjust_window, point.rows)]
      ELSE IF point.rows < e.top
        THEN [e EXCEPT !.top = Min(SatSub(@, adjust_window), point.rows)]
      ELSE e

\* The editor with flag DIRTY set, buffer b and, unless b panicked, cmd pushed
Edited(e, b, pushes, cmd) ==
  [e EXCEPT !.flags = @ \cup {DIRTY_MASK},
            !.buffer = b,
            !.undo_manager = IF pushes /\ ~b.panic THEN push(@, cmd) ELSE @]

insert_char(e, c) ==
  IF Panicked(e) THEN e
  ELSE Edited(e, insert(e.buffer, c), TRUE, Insert(e.buffer.iptr, Encode(c)))

insert_newline(e) == insert_char(e, NEWLINE)

RECURSIVE RepeatInsertChar(_, _, _)
RepeatInsertChar(e, c, k) ==
  IF k = 0 THEN e ELSE RepeatInsertChar(insert_char(e, c), c, k - 1)

insert_tab(e) == RepeatInsertChar(e, SPACE, TAB_WIDTH)

\* delete_before_cursor recording the offset the cursor had before the delete
DeletedBeforeAtOldIptr(e, r) ==
  Edited(e, r.buf, r.some, DeleteBefore(e.buffer.iptr, r.res))

\* The if let of delete_before_cursor, r being what delete_before_ptr returned
DeletedBefore(e, r) == Edited(e, r.buf, r.some, DeleteBefore(r.buf.iptr, r.res))

delete_before_cursor(e) ==
  IF Panicked(e) THEN e ELSE DeletedBefore(e, delete_before_ptr(e.buffer))

\* delete_under_cursor recording a command whatever delete_after_ptr returned
DeletedAfterAlwaysPushes(e, r) ==
  Edited(e, r.buf, TRUE, DeleteAfter(r.buf.iptr, r.res))

\* The if let of delete_under_cursor, r being what delete_after_ptr returned
DeletedAfter(e, r) == Edited(e, r.buf, r.some, DeleteAfter(r.buf.iptr, r.res))

delete_under_cursor(e) ==
  IF Panicked(e) THEN e ELSE DeletedAfter(e, delete_after_ptr(e.buffer))

RECURSIVE RepeatDeleteUnderCursor(_, _)
RepeatDeleteUnderCursor(e, k) ==
  IF k = 0 THEN e ELSE RepeatDeleteUnderCursor(delete_under_cursor(e), k - 1)

\* The second half of cut_to_eol
CutSplice(d) ==
  IF Panicked(d) THEN d
  ELSE IF ColsBefore(d.buffer) = 0 THEN delete_before_cursor(d) ELSE d

cut_to_eol(e) ==
  IF Panicked(e) THEN e
  ELSE IF AfterPanics(e.buffer) THEN [e EXCEPT !.panic = TRUE]
  ELSE CutSplice(RepeatDeleteUnderCursor(e, SatSub(ColsAfter(e.buffer), 1) + 1))

WithUndo(e, r) == [e EXCEPT !.undo_manager = r.um, !.buffer = r.buf]

editor_undo(e) ==
  IF Panicked(e) THEN e ELSE WithUndo(e, undo(e.undo_manager, e.buffer))

editor_redo(e) ==
  IF Panicked(e) THEN e ELSE WithUndo(e, redo(e.undo_manager, e.buffer))

forward_one_char(e) ==
  IF Panicked(e) THEN e ELSE [e EXCEPT !.buffer = move_ptr_forward(@)]

backward_one_char(e) ==
  IF Panicked(e) THEN e ELSE [e EXCEPT !.buffer = move_ptr_backward(@)]

RECURSIVE RepeatForwardOneChar(_, _)
RepeatForwardOneChar(e, k) ==
  IF k = 0 THEN e ELSE RepeatForwardOneChar(forward_one_char(e), k - 1)

RECURSIVE RepeatBackwardOneChar(_, _)
RepeatBackwardOneChar(e, k) ==
  IF k = 0 THEN e ELSE RepeatBackwardOneChar(backward_one_char(e), k - 1)

jump_to_eol(e) ==
  IF Panicked(e) THEN e
  ELSE IF AfterPanics(e.buffer) THEN [e EXCEPT !.panic = TRUE]
  ELSE RepeatForwardOneChar(e, ColsAfter(e.buffer))

jump_to_bol(e) ==
  IF Panicked(e) THEN e
  ELSE RepeatBackwardOneChar(e, ColsBefore(e.buffer))

\* The second half of jump_to_next_line, f being at the start of the next line
NextLineCols(f, point) ==
  IF Panicked(f) THEN f
  ELSE IF AfterPanics(f.buffer) THEN [f EXCEPT !.panic = TRUE]
  ELSE RepeatForwardOneChar(f, Min(point.cols, ColsAfter(f.buffer)))

jump_to_next_line(e) ==
  IF Panicked(e) THEN e
  ELSE NextLineCols(forward_one_char(jump_to_eol(e)), get_current_point(e))

\* The second half of jump_to_previous_line, f being at the end of the previous line
PreviousLineCols(f, point) ==
  IF Panicked(f) THEN f
  ELSE RepeatBackwardOneChar(f, SatSub(ColsBefore(f.buffer), point.cols))

jump_to_previous_line(e) ==
  IF Panicked(e) THEN e
  ELSE PreviousLineCols(backward_one_char(jump_to_bol(e)), get_current_point(e))

\* save with the clearing of the dirty bit forgotten
SaveKeepsDirty(e, io_ok) ==
  IF Panicked(e) THEN e
  ELSE IF ~io_ok \/ AfterPanics(e.buffer) THEN [e EXCEPT !.panic = TRUE]
  ELSE [e EXCEPT !.undo_manager = push(@, Checkpoint),
                 !.flags = @ \cup {SAVED_MASK}]

\* Editor::save: io_ok is whether creating, writing and renaming the file succeed
save(e, io_ok) ==
  IF Panicked(e) THEN e
  ELSE IF ~io_ok \/ AfterPanics(e.buffer) THEN [e EXCEPT !.panic = TRUE]
  ELSE [e EXCEPT !.undo_manager = push(@, Checkpoint),
                 !.flags = (@ \cup {SAVED_MASK}) \ {DIRTY_MASK}]

\* What ISearch::run returns to handle_search
SearchRun(e, push_c, c) == run(e.isearch, e.buffer, push_c, c)

\* if let Some(id) = r { self.buffer.jump(id) }, r being what the search returned
JumpToMatch(e, r) ==
  [e EXCEPT !.isearch = r.is,
            !.buffer = IF r.ret.some THEN jump(@, r.ret.id) ELSE @]

\* handle_search once run has returned r
Searched(e, r) == IF r.panic THEN [e EXCEPT !.panic = TRUE] ELSE JumpToMatch(e, r)

handle_search(e, push_c, c) ==
  IF Panicked(e) THEN e ELSE Searched(e, SearchRun(e, push_c, c))

\* The InsertNewLine arm of match_isearch_buffer editing the buffer as the
\* normal table does
ConfirmSearchInserts(e) == insert_newline(e)

\* The InsertNewLine arm of match_isearch_buffer
confirm_search(e) == JumpToMatch(e, fetch_next(e.isearch))

match_editing_buffer(e, m) ==
  IF m.kind = "InsertNewLine" THEN insert_newline(e)
  ELSE IF m.kind = "Insert" THEN insert_char(e, m.c)
  ELSE IF m.kind = "InsertTab" THEN insert_tab(e)
  ELSE IF m.kind = "DeleteUnderCursor" THEN delete_under_cursor(e)
  ELSE IF m.kind = "DeleteBeforeCursor" THEN delete_before_cursor(e)
  ELSE IF m.kind = "CutToEndOfLine" THEN cut_to_eol(e)
  ELSE IF m.kind = "Undo" THEN editor_undo(e)
  ELSE IF m.kind = "Redo" THEN editor_redo(e)
  ELSE IF m.kind = "ForwardOneChar" THEN forward_one_char(e)
  ELSE IF m.kind = "BackwardOneChar" THEN backward_one_char(e)
  ELSE IF m.kind = "JumpToBeginningOfLine" THEN jump_to_bol(e)
  ELSE IF m.kind = "JumpToEndOfLine" THEN jump_to_eol(e)
  ELSE IF m.kind = "JumpToNextLine" THEN jump_to_next_line(e)
  ELSE IF m.kind = "JumpToPreviousLine" THEN jump_to_previous_line(e)
  ELSE IF m.kind = "Noop" THEN e
  ELSE IF m.kind = "Quit" THEN [e EXCEPT !.panic = TRUE]
  ELSE IF m.kind = "Save" THEN save(e, m.io_ok)
  ELSE IF m.kind = "UserManual" THEN toggle_popup(e)
  ELSE toggle_prompt(e)

\* match_isearch_buffer with UserManual opening the popup over the prompt
MatchIsearchOpensPopup(e, m) ==
  IF m.kind = "InsertNewLine" THEN confirm_search(e)
  ELSE IF m.kind = "Insert" THEN handle_search(e, TRUE, m.c)
  ELSE IF m.kind = "DeleteBeforeCursor" THEN handle_search(e, FALSE, 0)
  ELSE IF m.kind = "Noop" THEN e
  ELSE IF m.kind = "Quit" THEN [e EXCEPT !.panic = TRUE]
  ELSE IF m.kind = "UserManual" THEN toggle_popup(e)
  ELSE toggle_prompt(e)

match_isearch_buffer(e, m) ==
  IF m.kind = "InsertNewLine" THEN confirm_search(e)
  ELSE IF m.kind = "Insert" THEN handle_search(e, TRUE, m.c)
  ELSE IF m.kind = "DeleteBeforeCursor" THEN handle_search(e, FALSE, 0)
  ELSE IF m.kind = "Noop" THEN e
  ELSE IF m.kind = "Quit" THEN [e EXCEPT !.panic = TRUE]
  ELSE toggle_prompt(e)

\* Editor::update
\* update once SAVED is cleared
Dispatch(c, m) ==
  IF is_prompted(c) THEN match_isearch_buffer(c, m) ELSE match_editing_buffer(c, m)

\* update with the help popup's early return forgotten
UpdateIgnoresPopup(e, m) == Dispatch([e EXCEPT !.flags = @ \ {SAVED_MASK}], m)

\* update with the clearing of SAVED forgotten
UpdateKeepsSaved(e, m) ==
  IF is_in_manual_popup(e) /\ m.kind # "UserManual" THEN e ELSE Dispatch(e, m)

\* Editor::update
update(e, m) ==
  IF is_in_manual_popup(e) /\ m.kind # "UserManual" THEN e
  ELSE Dispatch([e EXCEPT !.flags = @ \ {SAVED_MASK}], m)

---------------------------------------------------------------------------
(* The main loop (src/src/main.rs) and the view's use of the editor *)

VARIABLES
  editor,   \* the Editor
  main_h,   \* the height of the main area of the View
  file,     \* the bytes of the file at path
  status,   \* "running", "quit" (the loop left by Quit) or "panicked"
  report,   \* what the search engine returned during the last message
  hist      \* one record per message read: the message and the editor it met

vars == <<editor, main_h, file, status, report, hist>>

\* Bounds of the exploration: the number of messages read
MaxSteps == 3

MaxEditSteps == 5

MaxSearchSteps == 5

MaxWideSteps == 4

MaxGrowSteps == 3

\* The largest viewport top, cursor row and height tried on make_cursor_visible
MaxRow == 5

\* The chars the explorations type and load: 'a', 'b' and one char of each
\* longer UTF-8 width, U+00E9 (2 bytes), U+20AC (3 bytes), U+1F9D1 (4 bytes)
SampleChars == <<97, 98, 233, 8364, 129489>>

ChA == SampleChars[1]

ChB == SampleChars[2]

Ch2 == SampleChars[3]

Ch3 == SampleChars[4]

Ch4 == SampleChars[5]

RECURSIVE Str(_)
\* The string of the chars cs
Str(cs) == IF cs = <<>> THEN <<>> ELSE Encode(Head(cs)) \o Str(Tail(cs))

Msg(kind) == [kind |-> kind, c |-> 0, io_ok |-> TRUE]

MsgInsert(c) == [kind |-> "Insert", c |-> c, io_ok |-> TRUE]

MsgSave(io_ok) == [kind |-> "Save", c |-> 0, io_ok |-> io_ok]

\* View::render as far as it changes the editor: the cursor is made visible
Render(e, h) == make_cursor_visible(e, get_current_point(e), h)

\* How update routes a message in state e
Route(e, m) ==
  IF is_in_manual_popup(e) /\ m.kind # "UserManual" THEN "discarded"
  ELSE IF is_prompted(e) THEN "search"
  ELSE "normal"

\* What the search engine returned to the dispatcher for message m in state e
ReportOf(e, m) ==
  IF Route(e, m) # "search" THEN None
  ELSE IF m.kind = "InsertNewLine" THEN fetch_next(e.isearch).ret
  ELSE IF m.kind = "Insert" THEN SearchRun(e, TRUE, m.c).ret
  ELSE IF m.kind = "DeleteBeforeCursor" THEN SearchRun(e, FALSE, 0).ret
  ELSE None

Snapshot(e, m) == [m |-> m, route |-> Route(e, m), editor |-> e]

\* The end of a turn: e is the editor update has left
Turn(e, m) ==
  IF Panicked(e)
    THEN /\ status' = "panicked"
         /\ UNCHANGED <<editor, file, report>>
    ELSE /\ status' = status
         /\ editor' = Render(e, main_h)
         /\ report' = ReportOf(editor, m)
         /\ file' = IF m.kind = "Save" /\ Route(editor, m) = "normal"
                      THEN Logical(e.buffer) ELSE file

\* One turn of the loop of main: a message is read and dispatched, the frame redrawn
Step(m) ==
  /\ hist' = Append(hist, Snapshot(editor, m))
  /\ main_h' = main_h
  /\ IF m.kind = "Quit"
       THEN /\ status' = "quit"
            /\ UNCHANGED <<editor, file, report>>
       ELSE Turn(update(editor, m), m)

\* The loop runs, and fewer than bound messages were read
Reading(bound) == status = "running" /\ Len(hist) < bound

InitWith(texts, heights) ==
  /\ \E t \in texts : editor = EditorNew(t) /\ file = t
  /\ main_h \in heights
  /\ status = "running"
  /\ report = None
  /\ hist = <<>>

InsertNewLine(bound) == Reading(bound) /\ Step(Msg("InsertNewLine"))

InsertChar(chars, bound) == Reading(bound) /\ \E c \in chars : Step(MsgInsert(c))

InsertTab(bound) == Reading(bound) /\ Step(Msg("InsertTab"))

DeleteUnderCursor(bound) == Reading(bound) /\ Step(Msg("DeleteUnderCursor"))

DeleteBeforeCursor(bound) == Reading(bound) /\ Step(Msg("DeleteBeforeCursor"))

CutToEndOfLine(bound) == Reading(bound) /\ Step(Msg("CutToEndOfLine"))

Undo(bound) == Reading(bound) /\ Step(Msg("Undo"))

Redo(bound) == Reading(bound) /\ Step(Msg("Redo"))

ForwardOneChar(bound) == Reading(bound) /\ Step(Msg("ForwardOneChar"))

BackwardOneChar(bound) == Reading(bound) /\ Step(Msg("BackwardOneChar"))

JumpToBeginningOfLine(bound) == Reading(bound) /\ Step(Msg("JumpToBeginningOfLine"))

JumpToEndOfLine(bound) == Reading(bound) /\ Step(Msg("JumpToEndOfLine"))

JumpToNextLine(bound) == Reading(bound) /\ Step(Msg("JumpToNextLine"))

JumpToPreviousLine(bound) == Reading(bound) /\ Step(Msg("JumpToPreviousLine"))

Noop(bound) == Reading(bound) /\ Step(Msg("Noop"))

Quit(bound) == Reading(bound) /\ Step(Msg("Quit"))

Save(bound) == Reading(bound) /\ \E ok \in BOOLEAN : Step(MsgSave(ok))

UserManual(bound) == Reading(bound) /\ Step(Msg("UserManual"))

Search(bound) == Reading(bound) /\ Step(Msg("Search"))

---------------------------------------------------------------------------
(* The whole dispatcher, over text with chars of every width *)

Texts == {<<>>, Str(<<Ch2, ChA>>), Str(<<ChA, NEWLINE, Ch4>>), Str(<<ChA, Ch3, NEWLINE>>)}

InputChars == {ChA, Ch2}

Heights == {1, 2}

Init == InitWith(Texts, Heights)

Next ==
  \/ InsertNewLine(MaxSteps)
  \/ InsertChar(InputChars, MaxSteps)
  \/ InsertTab(MaxSteps)
  \/ DeleteUnderCursor(MaxSteps)
  \/ DeleteBeforeCursor(MaxSteps)
  \/ CutToEndOfLine(MaxSteps)
  \/ Undo(MaxSteps)
  \/ Redo(MaxSteps)
  \/ ForwardOneChar(MaxSteps)
  \/ BackwardOneChar(MaxSteps)
  \/ JumpToBeginningOfLine(MaxSteps)
  \/ JumpToEndOfLine(MaxSteps)
  \/ JumpToNextLine(MaxSteps)
  \/ JumpToPreviousLine(MaxSteps)
  \/ Noop(MaxSteps)
  \/ Quit(MaxSteps)
  \/ Save(MaxSteps)
  \/ UserManual(MaxSteps)
  \/ Search(MaxSteps)

Spec == Init /\ [][Next]_vars

---------------------------------------------------------------------------
(* Editing, undo and redo over 1-byte text *)

EditTexts == {<<>>, Str(<<ChA, ChB>>)}

EditChars == {ChA, ChB}

EditInit == InitWith(EditTexts, {2})

EditNext ==
  \/ InsertChar(EditChars, MaxEditSteps)
  \/ DeleteUnderCursor(MaxEditSteps)
  \/ DeleteBeforeCursor(MaxEditSteps)
  \/ Undo(MaxEditSteps)
  \/ Redo(MaxEditSteps)
  \/ ForwardOneChar(MaxEditSteps)
  \/ BackwardOneChar(MaxEditSteps)
  \/ Save(MaxEditSteps)

EditSpec == EditInit /\ [][EditNext]_vars

---------------------------------------------------------------------------
(* Incremental search *)

SearchTexts == {Str(<<ChB, ChA, ChA, ChA>>), Str(<<ChA, ChB, ChA>>),
                Str(<<Ch2, ChA, Ch4, ChA>>), Str(<<ChB, Ch3, ChA>>)}

SearchChars == {ChA, ChB}

SearchInit == InitWith(SearchTexts, {2})

SearchNext ==
  \/ Search(MaxSearchSteps)
  \/ InsertChar(SearchChars, MaxSearchSteps)
  \/ InsertNewLine(MaxSearchSteps)
  \/ DeleteBeforeCursor(MaxSearchSteps)
  \/ ForwardOneChar(MaxSearchSteps)

SearchSpec == SearchInit /\ [][SearchNext]_vars

---------------------------------------------------------------------------
(* Edits, cursor moves, undo and redo over multi-byte text *)

WideTexts == {Str(<<Ch2, ChA>>), Str(<<ChA, Ch3>>)}

WideChars == {ChA}

WideInit == InitWith(WideTexts, {2})

WideNext ==
  \/ InsertChar(WideChars, MaxWideSteps)
  \/ DeleteUnderCursor(MaxWideSteps)
  \/ DeleteBeforeCursor(MaxWideSteps)
  \/ Undo(MaxWideSteps)
  \/ Redo(MaxWideSteps)
  \/ ForwardOneChar(MaxWideSteps)
  \/ BackwardOneChar(MaxWideSteps)
  \/ JumpToBeginningOfLine(MaxWideSteps)
  \/ JumpToEndOfLine(MaxWideSteps)
  \/ Search(MaxWideSteps)

WideSpec == WideInit /\ [][WideNext]_vars

\* Files long enough for insert to double the buffer: gap_len < capacity / 4
\* needs more than 3 * DEFAULT_GAP_LEN bytes of text. The middle of the file
\* is NUL chars, which the buffer cannot tell from unused cells.
Padded(head, n, tail) == head \o [k \in 1..n |-> NULL] \o tail

GrowTexts ==
  {Padded(Str(<<Ch2>>), 3 * DEFAULT_GAP_LEN, Str(<<ChA>>)),
   Padded(Str(<<Ch2>>), 3 * DEFAULT_GAP_LEN, Str(<<ChA, ChB>>))}

GrowChars == {ChA, Ch3}

GrowInit == InitWith(GrowTexts, {2})

GrowNext ==
  \/ InsertChar(GrowChars, MaxGrowSteps)
  \/ InsertTab(MaxGrowSteps)
  \/ InsertNewLine(MaxGrowSteps)
  \/ DeleteUnderCursor(MaxGrowSteps)
  \/ DeleteBeforeCursor(MaxGrowSteps)
  \/ Undo(MaxGrowSteps)
  \/ Redo(MaxGrowSteps)
  \/ ForwardOneChar(MaxGrowSteps)

GrowSpec == GrowInit /\ [][GrowNext]_vars

---------------------------------------------------------------------------
(* Reading the history *)

Done == Len(hist)

\* The editor after the k-th message (the redraw that follows included)
Post(k) == IF k < Len(hist) THEN hist[k + 1].editor ELSE editor

\* The editor the k-th message met
Pre(k) == hist[k].editor

\* The k-th message made the program panic
Crashed(k) == k = Len(hist) /\ status = "panicked"

Content(e) == Logical(e.buffer)

Iptr(e) == e.buffer.iptr

Kind(k) == hist[k].m.kind

\* The k-th message was routed to the normal table
Normal(k) == hist[k].route = "normal"

\* The k-th message was routed to the search prompt
Prompted(k) == hist[k].route = "search"

InsertKinds == {"Insert", "InsertNewLine"}

DeleteKinds == {"DeleteBeforeCursor", "DeleteUnderCursor"}

MoveKinds == {"ForwardOneChar", "BackwardOneChar", "JumpToBeginningOfLine",
              "JumpToEndOfLine", "JumpToNextLine", "JumpToPreviousLine"}

\* The k-th message is an edit message that changed the buffer
BufferEdit(k) ==
  /\ Normal(k)
  /\ Kind(k) \in InsertKinds \cup DeleteKinds
  /\ ~Crashed(k)
  /\ Content(Post(k)) # Content(Pre(k))

\* The k-th message is an Undo dispatched to the normal table
UndoAt(k) == Normal(k) /\ Kind(k) = "Undo"

\* Messages i .. i+n-1 are buffer-changing edits and the n messages after them,
\* the last one read, are Undo
EditsThenUndos(i, n) ==
  /\ i + 2 * n - 1 = Done
  /\ \A k \in i..(i + n - 1) : BufferEdit(k)
  /\ \A k \in (i + n)..Done : UndoAt(k)

\* Content and cursor are what they were before message i
RestoredTo(i) ==
  /\ ~Crashed(Done)
  /\ Content(editor) = Content(Pre(i))
  /\ Iptr(editor) = Iptr(Pre(i))

---------------------------------------------------------------------------
(* C1 *)

\* C1: from any reachable state, n buffer-changing edit messages (Insert,
\* InsertNewLine, DeleteBeforeCursor, DeleteUnderCursor) followed by n Undo
\* messages restore the logical content and the cursor offset.
C1_UndoRestoresFromAnyLog ==
  \A i \in 1..Done : \A n \in 1..Done :
    EditsThenUndos(i, n) => RestoredTo(i)

---------------------------------------------------------------------------
(* C2 *)

\* C2: in every reachable state the logical content is valid UTF-8 and iptr
\* lies on a codepoint boundary of it.
C2_ContentIsUtf8 ==
  /\ IsUtf8(Content(editor))
  /\ IsUtf8(BeforeGap(editor.buffer))

---------------------------------------------------------------------------
(* C3 *)

\* C3: an Undo met a non-empty undo log, only cursor movements followed, and
\* the Redo just dispatched restored the content to what it was before the Undo.
C3_RedoRestoresContent ==
  \A i \in 1..Done :
    ( /\ i < Done
      /\ UndoAt(i)
      /\ Pre(i).undo_manager.undos # <<>>
      /\ \A k \in (i + 1)..(Done - 1) : Normal(k) /\ Kind(k) \in MoveKinds
      /\ Normal(Done) /\ Kind(Done) = "Redo" )
    => ( ~Crashed(Done) /\ Content(editor) = Content(Pre(i)) )

---------------------------------------------------------------------------
(* C4 *)

\* The k-th message inserted characters through the normal table
TypedAt(k) == Normal(k) /\ Kind(k) \in InsertKinds \cup {"InsertTab"}

\* C4: messages i..Done-1 are a run of character inserts with no other message
\* in between (the message before the run is no insert), and the single Undo
\* just dispatched restored content and cursor to their values before the run.
C4_OneUndoRemovesTheRun ==
  \A i \in 1..Done :
    ( /\ i < Done
      /\ \A k \in i..(Done - 1) : TypedAt(k)
      /\ (i > 1 => ~TypedAt(i - 1))
      /\ UndoAt(Done) )
    => RestoredTo(i)

---------------------------------------------------------------------------
(* C5 *)

\* Message i inserted a character, the messages up to j only moved the cursor,
\* away from the position after that character and back to it, message j
\* inserted another character and the last message read is an Undo
TypedMovedTypedUndone(i, j) ==
  /\ i < j /\ j + 1 = Done
  /\ Normal(i) /\ Kind(i) = "Insert" /\ ~Crashed(i)
  /\ \A k \in (i + 1)..(j - 1) : Normal(k) /\ Kind(k) \in MoveKinds
  /\ \E k \in (i + 1)..(j - 1) : Iptr(Post(k)) # Iptr(Post(i))
  /\ Iptr(Pre(j)) = Iptr(Post(i))
  /\ Normal(j) /\ Kind(j) = "Insert"
  /\ UndoAt(Done)

\* C5: after 'a', a move away and back, 'b' and one Undo, only 'b' is removed:
\* the content is the one 'b' was typed into, which still contains 'a'.
C5_UndoRemovesOnlyTheLast ==
  \A i \in 1..Done : \A j \in 1..Done :
    TypedMovedTypedUndone(i, j)
      => ( ~Crashed(Done) /\ Content(editor) = Content(Pre(j)) )

---------------------------------------------------------------------------
(* C6 *)

\* delete_before_ptr on b, then the returned bytes decoded and inserted one by one
Reinserted(r) == InsertAll(r.buf, Chars(r.res), 1)

\* r is what delete_before_ptr returned on b and reinserting it restores b
ReinsertRestores(b, r) ==
  /\ r.some
  /\ IsUtf8(r.res)
  /\ Logical(Reinserted(r)) = Logical(b)
  /\ Reinserted(r).iptr = b.iptr

\* C6: in every state with iptr > 0, delete_before_ptr followed by inserting
\* the decoded returned bytes restores the logical content and the cursor.
C6_DeleteThenReinsert ==
  (status = "running" /\ Iptr(editor) > 0)
    => ReinsertRestores(editor.buffer, delete_before_ptr(editor.buffer))

---------------------------------------------------------------------------
(* C7 *)

EditKinds == {"Insert", "InsertNewLine", "InsertTab", "DeleteBeforeCursor",
              "DeleteUnderCursor", "CutToEndOfLine"}

\* The k-th message is a Save dispatched in normal mode that returned
SavedAt(k) == Normal(k) /\ Kind(k) = "Save" /\ ~Crashed(k)

\* After the k-th message the editor is clean and saved
CleanAfter(k) == ~is_modified(Post(k)) /\ is_saved(Post(k))

\* After the k-th message the editor is modified and no longer saved
DirtyAfter(k) == is_modified(Post(k)) /\ ~is_saved(Post(k))

\* Message j is the first edit message (insert or delete) read after message k
FirstEditAfter(k, j) ==
  /\ k < j
  /\ Kind(j) \in EditKinds
  /\ ~Crashed(j)
  /\ \A l \in (k + 1)..(j - 1) : Kind(l) \notin EditKinds

\* Message j is the first edit message after message k that update dispatched
\* with neither the help popup nor the search prompt active
FirstNormalEditAfter(k, j) ==
  /\ k < j
  /\ Kind(j) \in EditKinds /\ Normal(j)
  /\ ~Crashed(j)
  /\ \A l \in (k + 1)..(j - 1) : ~(Kind(l) \in EditKinds /\ Normal(l))

\* C7 as stated: right after a Save dispatched in normal mode is_modified() is
\* false and is_saved() is true, and after the first subsequent edit message
\* is_modified() is true and is_saved() is false.
C7_SaveThenAnyEdit ==
  \A k \in 1..Done :
    SavedAt(k) =>
      /\ CleanAfter(k)
      /\ \A j \in 1..Done : FirstEditAfter(k, j) => DirtyAfter(j)

\* C7 amended: right after a Save dispatched in normal mode is_modified() is
\* false and is_saved() is true, and after the first subsequent edit message
\* dispatched while neither the help popup nor the search prompt is active
\* is_modified() is true and is_saved() is false.
C7_SaveThenNormalEdit ==
  \A k \in 1..Done :
    SavedAt(k) =>
      /\ CleanAfter(k)
      /\ \A j \in 1..Done : FirstNormalEditAfter(k, j) => DirtyAfter(j)

\* A modified buffer was saved and the edit just dispatched modified it again
C7_Witness ==
  \E k \in 1..Done :
    /\ SavedAt(k) /\ is_modified(Pre(k)) /\ CleanAfter(k)
    /\ FirstNormalEditAfter(k, Done) /\ DirtyAfter(Done)

---------------------------------------------------------------------------
(* C8 *)

\* t occurs in s at byte offset i
Occurs(s, t, i) == i + Len(t) <= Len(s) /\ SubSeq(s, i + 1, i + Len(t)) = t

\* ids lists, in ascending order, the leftmost-first non-overlapping occurrences
\* of t in s: every entry is an occurrence, each starts at or after the end of
\* the one before, and every occurrence left out starts inside a listed one
LeftmostFirst(s, t, ids) ==
  /\ \A k \in 1..Len(ids) : Occurs(s, t, ids[k])
  /\ \A k \in 1..(Len(ids) - 1) : ids[k] + Len(t) <= ids[k + 1]
  /\ \A i \in 0..Len(s) :
       Occurs(s, t, i) =>
         \E k \in 1..Len(ids) : ids[k] <= i /\ i < ids[k] + Len(t)

\* The last message read appended a character to the search term
AppendedToTerm ==
  /\ Done > 0
  /\ Prompted(Done) /\ Kind(Done) = "Insert"
  /\ ~Crashed(Done)

\* C8: after a character is appended to the search term, the match list is the
\* ascending list of the leftmost-first non-overlapping occurrences of the term
\* in the logical content, wherever the gap was.
C8_MatchListIsLeftmostFirst ==
  AppendedToTerm =>
    /\ editor.isearch.term = Pre(Done).isearch.term \o Encode(hist[Done].m.c)
    /\ LeftmostFirst(Content(editor), editor.isearch.term, editor.isearch.ids)

\* A second character was appended with the gap inside the text, a match was
\* found and an occurrence overlapping it was left out
C8_Witness ==
  /\ AppendedToTerm
  /\ Iptr(Pre(Done)) > 0
  /\ Len(editor.isearch.term) = 2
  /\ editor.isearch.ids # <<>>
  /\ \E i \in 0..Len(Content(editor)) :
       /\ Occurs(Content(editor), editor.isearch.term, i)
       /\ \A k \in 1..Len(editor.isearch.ids) : editor.isearch.ids[k] # i

---------------------------------------------------------------------------
(* C9 *)

\* The k-th message is a confirm: InsertNewLine while the search prompt is active
ConfirmAt(k) == Prompted(k) /\ Kind(k) = "InsertNewLine"

\* The number of matches the k-th message met
Matches(k) == Len(Pre(k).isearch.ids)

\* The confirm just dispatched advanced the match cursor by 1 modulo the number
\* of matches and reported the offset at the new cursor
Advanced ==
  /\ ~Crashed(Done)
  /\ editor.isearch.ids = Pre(Done).isearch.ids
  /\ editor.isearch.term = Pre(Done).isearch.term
  /\ editor.isearch.current = (Pre(Done).isearch.current + 1) % Matches(Done)
  /\ report = Some(editor.isearch.ids[editor.isearch.current + 1])

\* Messages i..Done are confirms, as many as there are matches
FullCycle(i) ==
  /\ Matches(i) > 0
  /\ Done - i + 1 = Matches(i)
  /\ \A k \in i..Done : ConfirmAt(k)

\* The confirms i..Done visited every match once and came back to the start
VisitedAll(i) ==
  /\ {Post(k).isearch.current : k \in i..Done} = 0..(Matches(i) - 1)
  /\ editor.isearch.current = Pre(i).isearch.current

\* C9: a confirm on m > 0 matches advances the match cursor by 1 modulo m and
\* reports the offset there, m confirms in a row visit every match once and
\* return to the starting match, and a confirm on no match changes nothing.
C9_ConfirmCycles ==
  (Done > 0 /\ ConfirmAt(Done)) =>
    /\ Matches(Done) > 0 => Advanced
    /\ \A i \in 1..Done : FullCycle(i) => VisitedAll(i)
    /\ Matches(Done) = 0 =>
         (~Crashed(Done) /\ editor = Pre(Done) /\ report = None)

\* Three confirms in a row on three matches wrapped around to the first match
C9_Witness ==
  /\ Done >= 3
  /\ FullCycle(Done - 2)
  /\ VisitedAll(Done - 2)
  /\ Advanced
  /\ editor.isearch.current = 0

---------------------------------------------------------------------------
(* C10 *)

\* The last message read went to the search prompt and is one of those that
\* can move the cursor to a match
SearchedAt(k) ==
  Prompted(k) /\ Kind(k) \in {"Insert", "DeleteBeforeCursor", "InsertNewLine"}

---------------------------------------------------------------------------
(* C11 *)

\* The last message read met the help popup
MetPopup == Done > 0 /\ is_in_manual_popup(Pre(Done))

\* C11: while the help popup is active, a message other than UserManual leaves
\* the whole editor state unchanged, and UserManual flips the popup flag.
C11_PopupDiscards ==
  MetPopup =>
    /\ ~Crashed(Done)
    /\ Kind(Done) # "UserManual" => editor = Pre(Done)
    /\ Kind(Done) = "UserManual" => ~is_in_manual_popup(editor)

\* An edit message read over a modified buffer with the popup open was dropped
C11_Witness ==
  /\ MetPopup
  /\ Kind(Done) \in EditKinds
  /\ is_modified(Pre(Done))
  /\ Pre(Done).undo_manager.undos # <<>>
  /\ editor = Pre(Done)

---------------------------------------------------------------------------
(* C12 *)

\* The messages the search prompt gives a meaning to
PromptKinds == {"Insert", "DeleteBeforeCursor", "InsertNewLine"}

\* The last message read was dispatched to the search prompt (Quit never is:
\* main leaves its loop before update)
MetPrompt == Done > 0 /\ Prompted(Done) /\ Kind(Done) # "Quit"

\* The last message closed the prompt, cleared the search state and did
\* nothing else to buffer, undo log, redo log, Dirty and HelpPopup
ExitedPrompt ==
  /\ ~Crashed(Done)
  /\ ~is_prompted(editor)
  /\ editor.isearch = ISearchNew
  /\ editor.buffer = Pre(Done).buffer
  /\ editor.undo_manager = Pre(Done).undo_manager
  /\ is_modified(editor) = is_modified(Pre(Done))
  /\ is_in_manual_popup(editor) = is_in_manual_popup(Pre(Done))

\* C12 as stated: while the search prompt is active every message other than
\* Insert, DeleteBeforeCursor and InsertNewLine, Noop included, closes the
\* prompt, clears the search state and has no other effect.
C12_AnyOtherMessageExits ==
  (MetPrompt /\ Kind(Done) \notin PromptKinds) => ExitedPrompt

\* C12 amended: while the search prompt is active every message other than
\* Insert, DeleteBeforeCursor, InsertNewLine and Noop closes the prompt, clears
\* the search state and has no other effect; Noop changes nothing at all and
\* the prompt stays open.
C12_OtherMessageExitsNoopStays ==
  /\ (MetPrompt /\ Kind(Done) \notin PromptKinds \cup {"Noop"}) => ExitedPrompt
  /\ (MetPrompt /\ Kind(Done) = "Noop") =>
       (~Crashed(Done) /\ editor = Pre(Done) /\ is_prompted(editor))

\* A search with matches was left by a message of the normal table
C12_Witness ==
  /\ MetPrompt
  /\ Kind(Done) \in {"InsertTab", "Save", "Undo", "UserManual", "Search"}
  /\ Pre(Done).isearch.ids # <<>>
  /\ ExitedPrompt

---------------------------------------------------------------------------
(* C13 *)

\* The cursor of e is at the end of the content
AtEnd(e) == e.buffer.iptr + e.buffer.gap_len = e.buffer.len

\* The last message read is a delete with nothing to delete: DeleteBeforeCursor
\* at offset 0 or DeleteUnderCursor at the end, dispatched in normal mode
DeleteAtEdge ==
  /\ Done > 0 /\ Normal(Done)
  /\ \/ Kind(Done) = "DeleteBeforeCursor" /\ Iptr(Pre(Done)) = 0
     \/ Kind(Done) = "DeleteUnderCursor" /\ AtEnd(Pre(Done))

\* The last message raised no error and left buffer and undo manager alone
SilentNoop ==
  /\ ~Crashed(Done)
  /\ editor.buffer = Pre(Done).buffer
  /\ editor.undo_manager = Pre(Done).undo_manager

\* C13 as stated: a delete with nothing to delete leaves content, cursor, undo
\* log, redo log and the Dirty flag unchanged and raises no error.
C13_EdgeDeleteChangesNothing ==
  DeleteAtEdge => (SilentNoop /\ is_modified(editor) = is_modified(Pre(Done)))

\* C13 amended: a delete with nothing to delete leaves content, cursor, undo
\* log and redo log unchanged and raises no error; the Dirty flag is set.
C13_EdgeDeleteOnlySetsDirty ==
  DeleteAtEdge => (SilentNoop /\ is_modified(editor))

\* DeleteUnderCursor at the end of an unmodified non-empty text
C13_Witness ==
  /\ DeleteAtEdge
  /\ Kind(Done) = "DeleteUnderCursor"
  /\ Content(Pre(Done)) # <<>>
  /\ ~is_modified(Pre(Done))
  /\ SilentNoop /\ is_modified(editor)

---------------------------------------------------------------------------
(* C14 *)

\* C14: in every reachable state iptr + gap_len <= L, the length of the byte
\* array, so the before-gap and after-gap slices are in range.
C14_GapInRange ==
  editor.buffer.iptr + editor.buffer.gap_len <= editor.buffer.len

---------------------------------------------------------------------------
(* C15 *)

\* The byte offset at which the line holding offset o of s starts
BolOf(s, o) ==
  LET nl == {i \in 1..o : s[i] = NEWLINE}
  IN  IF nl = {} THEN 0 ELSE CHOOSE i \in nl : \A j \in nl : j <= i

\* The byte offset at which the line holding offset o of s ends (its NEWLINE,
\* or the end of s)
EolOf(s, o) ==
  LET nl == {i \in (o + 1)..Len(s) : s[i] = NEWLINE}
  IN  IF nl = {} THEN Len(s) ELSE (CHOOSE i \in nl : \A j \in nl : i <= j) - 1

\* The column of offset o of s, in bytes
ColOf(s, o) == o - BolOf(s, o)

\* The offset JumpToNextLine is to reach from offset o: column min(col, length
\* of the next line) of the next line
NextLineTarget(s, o) ==
  LET start == EolOf(s, o) + 1
  IN  start + Min(ColOf(s, o), EolOf(s, start) - start)

\* The offset JumpToPreviousLine is to reach from offset o
PreviousLineTarget(s, o) ==
  LET start == BolOf(s, BolOf(s, o) - 1)
  IN  start + Min(ColOf(s, o), BolOf(s, o) - 1 - start)

\* The last message left the content alone and put the cursor at offset o
MovedTo(o) ==
  /\ ~Crashed(Done)
  /\ Content(editor) = Content(Pre(Done))
  /\ Iptr(editor) = o

\* The last message is a line jump dispatched in normal mode over valid text
LineJump(kind) ==
  /\ Done > 0 /\ Normal(Done) /\ Kind(Done) = kind
  /\ C14_GapInRange /\ IsUtf8(Content(Pre(Done)))

\* C15: JumpToNextLine from (col, row) with a line row+1 moves the cursor to
\* (min(col, length of line row+1), row+1), JumpToPreviousLine from (col, row)
\* with row > 0 to (min(col, length of line row-1), row-1), content unchanged.
C15_LineJumpsKeepColumn ==
  /\ ( /\ LineJump("JumpToNextLine")
       /\ EolOf(Content(Pre(Done)), Iptr(Pre(Done))) < Len(Content(Pre(Done))) )
     => MovedTo(NextLineTarget(Content(Pre(Done)), Iptr(Pre(Done))))
  /\ ( /\ LineJump("JumpToPreviousLine")
       /\ BolOf(Content(Pre(Done)), Iptr(Pre(Done))) > 0 )
     => MovedTo(PreviousLineTarget(Content(Pre(Done)), Iptr(Pre(Done))))

---------------------------------------------------------------------------
(* C16 *)

\* C16: in every reachable state the help popup and the search prompt are not
\* both active.
C16_PopupExcludesPrompt ==
  ~(is_in_manual_popup(editor) /\ is_prompted(editor))

\* UserManual closed the search prompt and a second UserManual opened the popup
C16_Witness ==
  /\ Done = 3
  /\ Kind(1) = "Search" /\ is_prompted(Post(1))
  /\ Kind(2) = "UserManual" /\ ~is_prompted(Post(2)) /\ ~is_in_manual_popup(Post(2))
  /\ Kind(3) = "UserManual" /\ is_in_manual_popup(editor) /\ ~is_prompted(editor)

---------------------------------------------------------------------------
(* C17 *)

\* Commands to push: every kind, at the offsets around the cursor, carrying
\* one or two bytes
SampleCommands ==
  {Checkpoint} \cup
  { [kind |-> k, at |-> o, data |-> d] :
      k \in {"Insert", "DeleteBefore", "DeleteAfter"},
      o \in 0..(Iptr(editor) + 1),
      d \in {<<ChA>>, <<ChB, ChA>>} }

\* The merge table: what the undo stack q holds after cmd is pushed on it
MergeTable(q, cmd) ==
  IF q = <<>> THEN <<cmd>>
  ELSE IF /\ q[Len(q)].kind = "Insert" /\ cmd.kind = "Insert"
          /\ q[Len(q)].at + Len(q[Len(q)].data) = cmd.at
    THEN [q EXCEPT ![Len(q)] = Insert(@.at, @.data \o cmd.data)]
  ELSE IF /\ q[Len(q)].kind = "DeleteBefore" /\ cmd.kind = "DeleteBefore"
          /\ cmd.at + Len(cmd.data) = q[Len(q)].at
    THEN [q EXCEPT ![Len(q)] = DeleteBefore(cmd.at, cmd.data \o @.data)]
  ELSE IF /\ q[Len(q)].kind = "DeleteAfter" /\ cmd.kind = "DeleteAfter"
          /\ q[Len(q)].at = cmd.at
    THEN [q EXCEPT ![Len(q)] = DeleteAfter(@.at, @.data \o cmd.data)]
  ELSE q \o <<cmd>>

\* The top of the undo stack q is a Checkpoint
CheckpointOnTop(q) == q # <<>> /\ q[Len(q)].kind = "Checkpoint"

\* C17: on an undo stack that is empty or has a non-Checkpoint top, push(cmd)
\* leaves exactly what the merge table says, for every command cmd.
C17_PushFollowsMergeTable ==
  \A cmd \in SampleCommands :
    ~CheckpointOnTop(editor.undo_manager.undos) =>
      push(editor.undo_manager, cmd).undos
        = MergeTable(editor.undo_manager.undos, cmd)

\* A DeleteBefore that already merged two deletes is on top, below it another
\* command, and a third DeleteBefore ending where it starts merges into it
C17_Witness ==
  /\ Len(editor.undo_manager.undos) = 2
  /\ Top(editor.undo_manager.undos).kind = "DeleteBefore"
  /\ Len(Top(editor.undo_manager.undos).data) = 2
  /\ Top(editor.undo_manager.undos).at = 1
  /\ push(editor.undo_manager, DeleteBefore(0, <<ChA>>)).undos
       = <<editor.undo_manager.undos[1],
           DeleteBefore(0, <<ChA>> \o Top(editor.undo_manager.undos).data)>>

---------------------------------------------------------------------------
(* C18 *)

\* C18: on an undo stack with a Checkpoint on top, push(cmd) puts cmd,
\* unmodified, in the place of the Checkpoint, for every command cmd: the
\* entries below are untouched and the length is unchanged.
C18_PushReplacesCheckpoint ==
  \A cmd \in SampleCommands :
    CheckpointOnTop(editor.undo_manager.undos) =>
      push(editor.undo_manager, cmd).undos
        = [editor.undo_manager.undos EXCEPT ![Len(editor.undo_manager.undos)] = cmd]

\* A Checkpoint lies on an Insert that ends at the cursor: an Insert pushed at
\* the cursor replaces the Checkpoint and is not merged with the one below
C18_Witness ==
  /\ Len(editor.undo_manager.undos) = 2
  /\ CheckpointOnTop(editor.undo_manager.undos)
  /\ editor.undo_manager.undos[1].kind = "Insert"
  /\ editor.undo_manager.undos[1].at + Len(editor.undo_manager.undos[1].data)
       = Iptr(editor)
  /\ push(editor.undo_manager, Insert(Iptr(editor), <<ChA>>)).undos
       = <<editor.undo_manager.undos[1], Insert(Iptr(editor), <<ChA>>)>>

---------------------------------------------------------------------------
(* C19 *)

\* The last message is a Redo dispatched in normal mode right after a
\* buffer-changing edit or a Save
RedoAfterPush ==
  /\ Done > 1
  /\ Normal(Done) /\ Kind(Done) = "Redo"
  /\ BufferEdit(Done - 1) \/ SavedAt(Done - 1)

\* The Redo just dispatched found nothing to redo and redid nothing
RedidNothing ==
  /\ ~Crashed(Done)
  /\ Pre(Done).undo_manager.redos = <<>>
  /\ editor.buffer = Pre(Done).buffer
  /\ editor.undo_manager = Pre(Done).undo_manager

\* C19: every push empties the redo stack, merged or not, the Checkpoint of
\* Save included, so a Redo right after a buffer-changing edit or a Save redoes
\* nothing.
C19_PushClearsRedos ==
  /\ \A cmd \in SampleCommands : push(editor.undo_manager, cmd).redos = <<>>
  /\ RedoAfterPush => RedidNothing

\* A Save met a non-empty redo stack and the Redo after it redid nothing
C19_Witness ==
  /\ RedoAfterPush
  /\ SavedAt(Done - 1)
  /\ Pre(Done - 1).undo_manager.redos # <<>>
  /\ RedidNothing

---------------------------------------------------------------------------
(* C20 *)

\* The last message read is an Insert, InsertNewLine, DeleteBeforeCursor or
\* DeleteUnderCursor that changed the buffer
ChangedBuffer(kinds) == Done > 0 /\ BufferEdit(Done) /\ Kind(Done) \in kinds

\* The command of the last message, were it to carry the offset o
CommandAt(o) ==
  IF Kind(Done) = "Insert" THEN Insert(o, Encode(hist[Done].m.c))
  ELSE IF Kind(Done) = "InsertNewLine" THEN Insert(o, <<NEWLINE>>)
  ELSE IF Kind(Done) = "DeleteBeforeCursor"
    THEN DeleteBefore(o, delete_before_ptr(Pre(Done).buffer).res)
  ELSE DeleteAfter(o, delete_after_ptr(Pre(Done).buffer).res)

\* The last message pushed its command carrying the offset o
PushedAt(o) ==
  editor.undo_manager = push(Pre(Done).undo_manager, CommandAt(o))

\* C20 as stated: every Insert, DeleteBeforeCursor and DeleteUnderCursor that
\* changes the buffer pushes a command carrying iptr as it was before the
\* mutation.
C20_CommandCarriesOldIptr ==
  ChangedBuffer(InsertKinds \cup DeleteKinds) => PushedAt(Iptr(Pre(Done)))

\* C20 amended: an Insert or DeleteUnderCursor that changes the buffer pushes
\* a command carrying iptr as it was before the mutation, a DeleteBeforeCursor
\* a command carrying iptr as it is after the deletion.
C20_CommandCarriesStartOfChange ==
  /\ ChangedBuffer(InsertKinds \cup {"DeleteUnderCursor"})
       => PushedAt(Iptr(Pre(Done)))
  /\ ChangedBuffer({"DeleteBeforeCursor"}) => PushedAt(Iptr(editor))

\* A DeleteBeforeCursor removed a codepoint and recorded the offset it left
\* the cursor at
C20_Witness ==
  /\ ChangedBuffer({"DeleteBeforeCursor"})
  /\ Iptr(editor) < Iptr(Pre(Done))
  /\ Top(editor.undo_manager.undos).kind = "DeleteBefore"
  /\ Top(editor.undo_manager.undos).at = Iptr(editor)
  /\ PushedAt(Iptr(editor))

---------------------------------------------------------------------------
(* C21 *)

\* The last message read appended a character to the search term or removed
\* its last character
TermChanged ==
  /\ Done > 0 /\ Prompted(Done)
  /\ Kind(Done) \in {"Insert", "DeleteBeforeCursor"}

\* The term the last message was to leave
NewTerm ==
  IF Kind(Done) = "Insert"
    THEN Pre(Done).isearch.term \o Encode(hist[Done].m.c)
    ELSE StringPop(Pre(Done).isearch.term)

\* The search restarted at the first match: the cursor index is 0 and the first
\* match, if there is one, is reported
RestartedAtFirstMatch ==
  /\ ~Crashed(Done)
  /\ editor.isearch.term = NewTerm
  /\ editor.isearch.current = 0
  /\ report = IF editor.isearch.ids = <<>> THEN None
                ELSE Some(editor.isearch.ids[1])

\* C21: in the search prompt, an append or removal that leaves a non-empty
\* term sets the match cursor to 0 and reports the first match (or none),
\* however many confirms came before; a removal that empties the term clears
\* term, matches and cursor and reports nothing.
C21_TermChangeRestartsSearch ==
  TermChanged =>
    IF NewTerm # <<>> THEN RestartedAtFirstMatch
    ELSE ~Crashed(Done) /\ editor.isearch = ISearchNew /\ report = None

---------------------------------------------------------------------------
(* C22 *)

\* The bytes of s from offset o on
From(s, o) == SubSeq(s, o + 1, Len(s))

\* C22: CutToEndOfLine removes, after the cursor, exactly the bytes up to but
\* not including the next line break (or up to the end): what follows the
\* cursor afterwards is the old content from that line break on.
C22_CutStopsAtLineBreak ==
  LineJump("CutToEndOfLine") =>
    /\ ~Crashed(Done)
    /\ AfterGap(editor.buffer)
         = From(Content(Pre(Done)),
                EolOf(Content(Pre(Done)), Iptr(Pre(Done))))

---------------------------------------------------------------------------
(* C23 *)

\* The row of offset o of s: the number of line breaks before it
RowOf(s, o) == Cardinality({i \in 1..o : s[i] = NEWLINE})

\* The last message put the cursor at offset o and kept row and content
MovedInLineTo(o) ==
  /\ MovedTo(o)
  /\ RowOf(Content(editor), Iptr(editor))
       = RowOf(Content(Pre(Done)), Iptr(Pre(Done)))

\* C23: JumpToEndOfLine leaves the cursor immediately before the first line
\* break at or after its position (or at the end), JumpToBeginningOfLine
\* immediately after the last line break before it (or at offset 0); row and
\* content are unchanged.
C23_LineEndsReached ==
  /\ LineJump("JumpToEndOfLine")
       => MovedInLineTo(EolOf(Content(Pre(Done)), Iptr(Pre(Done))))
  /\ LineJump("JumpToBeginningOfLine")
       => MovedInLineTo(BolOf(Content(Pre(Done)), Iptr(Pre(Done))))

---------------------------------------------------------------------------
(* C24 *)

\* Byte length of the codepoint that follows the cursor, 0 if none does
FollowingLen(b) ==
  IF AfterGap(b) = <<>> THEN 0 ELSE Utf8SeqLen(AfterGap(b), 1)

\* Byte length of the codepoint that ends at the end of s, 0 if none does
LastLen(s) ==
  IF \E n \in 1..Min(SIZE_OF_CHAR, Len(s)) : Utf8SeqLen(s, Len(s) - n + 1) = n
    THEN CHOOSE n \in 1..Min(SIZE_OF_CHAR, Len(s)) : Utf8SeqLen(s, Len(s) - n + 1) = n
    ELSE 0

\* Byte length of the codepoint that precedes the cursor, 0 if none does
PrecedingLen(b) == LastLen(BeforeGap(b))

\* Buffer a is buffer b with the cursor d bytes further, nothing else changed
PtrMoved(b, a, d) ==
  /\ ~a.panic
  /\ a.iptr = b.iptr + d
  /\ a.gap_len = b.gap_len
  /\ a.len = b.len
  /\ Logical(a) = Logical(b)

\* move_ptr_forward of b steps over the n bytes of the following codepoint,
\* and move_ptr_backward then steps back over them
ForwardOver(b, n) ==
  /\ n = 0 /\ AfterGap(b) = <<>> => move_ptr_forward(b) = b
  /\ n > 0 =>
       /\ PtrMoved(b, move_ptr_forward(b), n)
       /\ PtrMoved(b, move_ptr_backward(move_ptr_forward(b)), 0)

\* move_ptr_backward of b steps over the n bytes of the preceding codepoint
BackwardOver(b, n) ==
  /\ b.iptr = 0 => move_ptr_backward(b) = b
  /\ n > 0 => PtrMoved(b, move_ptr_backward(b), 0 - n)

\* C24: where a codepoint follows the cursor, move_ptr_forward advances iptr
\* by exactly its byte length (1 to 4); where a codepoint precedes it,
\* move_ptr_backward decreases iptr by exactly its byte length; at the end
\* and at the start they change nothing; neither changes the logical content
\* or gap_len, and forward followed by backward returns iptr to where it was.
C24_PtrMovesOneCodepoint ==
  C14_GapInRange =>
    /\ ForwardOver(editor.buffer, FollowingLen(editor.buffer))
    /\ BackwardOver(editor.buffer, PrecedingLen(editor.buffer))

\* The cursor stands between two codepoints, the following one 4 bytes wide,
\* and both moves step over a whole codepoint
C24_Witness ==
  /\ C14_GapInRange
  /\ FollowingLen(editor.buffer) = SIZE_OF_CHAR
  /\ PrecedingLen(editor.buffer) > 0
  /\ move_ptr_forward(editor.buffer).iptr = editor.buffer.iptr + SIZE_OF_CHAR
  /\ move_ptr_backward(editor.buffer).iptr < editor.buffer.iptr

---------------------------------------------------------------------------
(* C25 *)

\* The last n bytes of s
LastBytes(s, n) == SubSeq(s, Len(s) - n + 1, Len(s))

\* delete_after_ptr of b gave d: the n bytes of the following codepoint are
\* removed and returned in document order, iptr stays
RemovedAfter(b, d, n) ==
  /\ d.some
  /\ ~d.buf.panic
  /\ d.buf.gap_len = b.gap_len + n
  /\ d.buf.iptr = b.iptr
  /\ BeforeGap(d.buf) = BeforeGap(b)
  /\ AfterGap(d.buf) = From(AfterGap(b), n)
  /\ d.res = SubSeq(AfterGap(b), 1, n)

\* delete_before_ptr of b gave d: the n bytes of the preceding codepoint are
\* removed and returned in document order, iptr decreases by n
RemovedBefore(b, d, n) ==
  /\ d.some
  /\ ~d.buf.panic
  /\ d.buf.gap_len = b.gap_len + n
  /\ d.buf.iptr = b.iptr - n
  /\ BeforeGap(d.buf) = SubSeq(BeforeGap(b), 1, b.iptr - n)
  /\ AfterGap(d.buf) = AfterGap(b)
  /\ d.res = LastBytes(BeforeGap(b), n)

\* At the edge d returns nothing and leaves b as it is
RemovedNothing(b, d) == ~d.some /\ d.res = <<>> /\ d.buf = b

\* C25: away from the buffer edge delete_after_ptr and delete_before_ptr
\* remove exactly the one codepoint next to the gap (gap_len grows by its
\* byte length, iptr stays or decreases by that length) and return exactly
\* its UTF-8 bytes in document order, for every width 1 to 4; at the edge
\* they return nothing and change nothing.
C25_DeleteReturnsTheCodepoint ==
  C14_GapInRange =>
    /\ AfterGap(editor.buffer) = <<>>
          => RemovedNothing(editor.buffer, delete_after_ptr(editor.buffer))
    /\ editor.buffer.iptr = 0
          => RemovedNothing(editor.buffer, delete_before_ptr(editor.buffer))
    /\ FollowingLen(editor.buffer) > 0
          => RemovedAfter(editor.buffer, delete_after_ptr(editor.buffer),
                          FollowingLen(editor.buffer))
    /\ PrecedingLen(editor.buffer) > 0
          => RemovedBefore(editor.buffer, delete_before_ptr(editor.buffer),
                           PrecedingLen(editor.buffer))

---------------------------------------------------------------------------
(* C26 *)

\* insert(c) meets b with a gap below a quarter of the capacity
NeedsGrowth(b) == b.gap_len < b.len \div 4

\* The growth step took b to g: capacity doubled, gap_len raised by the old
\* capacity, iptr and the bytes on both sides of the gap as they were
Doubled(b, g) ==
  /\ g.len = 2 * b.len
  /\ g.gap_len = b.gap_len + b.len
  /\ g.iptr = b.iptr
  /\ BeforeGap(g) = BeforeGap(b)
  /\ AfterGap(g) = AfterGap(b)

\* a is b with the bytes s inserted at the cursor, in a buffer of cap bytes
InsertedAtCursor(b, a, s, cap) ==
  /\ ~a.panic
  /\ a.len = cap
  /\ a.iptr = b.iptr + Len(s)
  /\ a.gap_len = b.gap_len + (cap - b.len) - Len(s)
  /\ BeforeGap(a) = BeforeGap(b) \o s
  /\ AfterGap(a) = AfterGap(b)

\* insert(c) of b: with growth when the gap is short, in place otherwise
InsertGrowsWhenShort(b, c) ==
  IF NeedsGrowth(b)
    THEN /\ Doubled(b, Grow(b))
         /\ InsertedAtCursor(b, insert(b, c), Encode(c), 2 * b.len)
    ELSE insert(b, c).len = b.len

\* C26: insert(c) called with gap_len < capacity / 4 doubles the capacity,
\* raises gap_len by exactly the old capacity before c is written, leaves
\* iptr and the bytes before the gap to the growth step unchanged, and the
\* logical content after the call is the old one with c inserted at the old
\* cursor offset; with gap_len >= capacity / 4 the capacity is unchanged.
C26_InsertDoublesShortGap ==
  \A c \in {ChA, Ch2, Ch3, Ch4} : InsertGrowsWhenShort(editor.buffer, c)

\* A short gap with text on both sides of it, a 3-byte char inserted
C26_Witness ==
  /\ C14_GapInRange
  /\ NeedsGrowth(editor.buffer)
  /\ editor.buffer.iptr > 0
  /\ AfterGap(editor.buffer) # <<>>
  /\ insert(editor.buffer, Ch3).len = 2 * editor.buffer.len
  /\ BeforeGap(insert(editor.buffer, Ch3)) = BeforeGap(editor.buffer) \o Encode(Ch3)

---------------------------------------------------------------------------
(* C27 *)

\* The buffer insert(c) asserts on: b after the growth step
AfterGrowth(b) == IF NeedsGrowth(b) THEN Grow(b) ELSE b

\* The text after the gap of b, cell by cell: offset from the gap end and byte
TailCells(b) ==
  {<<k - (b.iptr + b.gap_len), b.bytes[k]>> :
     k \in {x \in DOMAIN b.bytes : x >= b.iptr + b.gap_len /\ x < b.len}}

\* a has the text after the gap that b has
TailKept(b, a) ==
  /\ a.len - Min(a.iptr + a.gap_len, a.len) = b.len - Min(b.iptr + b.gap_len, b.len)
  /\ TailCells(a) = TailCells(b)

\* The chars cs[i..] inserted one after the other into b, a the buffer after
\* the first of them: on every call the assertion holds and the text after
\* the gap is left as it was
RECURSIVE InsertsFitFrom(_, _, _, _)
InsertsFitFrom(b, a, cs, i) ==
  /\ AfterGrowth(b).gap_len >= SIZE_OF_CHAR
  /\ ~a.panic
  /\ TailKept(b, a)
  /\ i < Len(cs) => InsertsFitFrom(a, insert(a, cs[i + 1]), cs, i + 1)

InsertsFit(b, cs, i) ==
  i > Len(cs) \/ InsertsFitFrom(b, insert(b, cs[i]), cs, i)

\* The inserts a Redo in state e replays, if its command is an Insert that
\* jump lets through
RedoInsertsFit(e, redos) ==
  (redos # <<>> /\ Top(redos).kind = "Insert"
     /\ ~jump(e.buffer, Top(redos).at).panic)
    => InsertsFit(jump(e.buffer, Top(redos).at), Chars(Top(redos).data), 1)

\* C27: on every call of insert the dispatcher can make (a typed char, the
\* spaces of a tab, a newline, the inserts Redo replays, after any
\* interleaving of edits, undos and redos) the capacity assertion holds:
\* after the growth step gap_len is at least 4, and the bytes written do not
\* overwrite the text after the gap.
C27_InsertAlwaysFits ==
  /\ \A c \in {ChA, Ch2, Ch3, Ch4, NEWLINE} : InsertsFit(editor.buffer, <<c>>, 1)
  /\ InsertsFit(editor.buffer, [k \in 1..TAB_WIDTH |-> SPACE], 1)
  /\ RedoInsertsFit(editor, editor.undo_manager.redos)

\* A Redo has replayed an Insert into a buffer that an earlier insert had
\* doubled, with text after the gap
C27_Witness ==
  /\ Done >= 3
  /\ Kind(Done) = "Redo"
  /\ Pre(Done).undo_manager.redos # <<>>
  /\ Top(Pre(Done).undo_manager.redos).kind = "Insert"
  /\ ~Crashed(Done)
  /\ editor.buffer.len > DEFAULT_GAP_LEN + Len(file)
  /\ AfterGap(editor.buffer) # <<>>
  /\ AfterGap(editor.buffer) = AfterGap(Pre(Done).buffer)

---------------------------------------------------------------------------
(* C28 *)

\* The last message made one edit in normal mode, and push merged its
\* command into the top of the undo stack
MergedLast ==
  /\ Done >= 1
  /\ ~Crashed(Done)
  /\ Normal(Done)
  /\ Kind(Done) \in InsertKinds \cup DeleteKinds
  /\ Pre(Done).undo_manager.undos # <<>>
  /\ Top(Pre(Done).undo_manager.undos).kind \in {"Insert", "DeleteBefore", "DeleteAfter"}
  /\ Len(editor.undo_manager.undos) = Len(Pre(Done).undo_manager.undos)
  /\ Top(editor.undo_manager.undos) # Top(Pre(Done).undo_manager.undos)

\* The command that push merged into last to give merged
Incoming(last, merged) ==
  IF merged.kind = "Insert"
    THEN Insert(last.at + Len(last.data), From(merged.data, Len(last.data)))
  ELSE IF merged.kind = "DeleteAfter"
    THEN DeleteAfter(merged.at, From(merged.data, Len(last.data)))
  ELSE DeleteBefore(merged.at,
                    SubSeq(merged.data, 1, Len(merged.data) - Len(last.data)))

\* Buffers x and y show the same text and cursor (or both calls panicked)
SameOutcome(x, y) ==
  /\ x.panic = y.panic
  /\ ~x.panic => Logical(x) = Logical(y) /\ x.iptr = y.iptr

\* Undoing merged in b, and undoing cmd and then last in b, agree
MergeIsSound(b, last, cmd, merged) ==
  /\ Merge(last, cmd) = [accumulate |-> TRUE, final_cmd |-> merged]
  /\ SameOutcome(Revert(b, merged), Revert(Revert(b, cmd), last))

\* C28: whenever push merges an incoming command into the stack top (Insert,
\* DeleteBefore or DeleteAfter), undoing the merged command leaves the same
\* logical content and cursor offset as undoing the two constituent commands
\* one after the other, most recent first.
C28_CoalescingIsSound ==
  MergedLast =>
    MergeIsSound(editor.buffer,
                 Top(Pre(Done).undo_manager.undos),
                 Incoming(Top(Pre(Done).undo_manager.undos),
                          Top(editor.undo_manager.undos)),
                 Top(editor.undo_manager.undos))

---------------------------------------------------------------------------
(* C29 *)

\* C29: in every reachable state where is_modified() is false, the logical
\* content of the buffer equals the content written by the most recent Save
\* (the initial text if there was none); Undo and Redo after a Save never
\* leave the buffer different from the saved content with the Dirty flag clear.
C29_CleanMeansSaved ==
  ~is_modified(editor) => Content(editor) = file

---------------------------------------------------------------------------
(* C30 *)

\* The match cursor of search engine is points into its match list
CursorInRange(is) == is.ids # <<>> => is.current < Len(is.ids)

\* The last message changed the term in the search prompt, the new term has
\* matches in the text, and run read ids[current] past the end of the new
\* match list and panicked
IndexedPastEnd ==
  /\ TermChanged
  /\ Crashed(Done)
  /\ NewTerm # <<>>
  /\ ~AfterPanics(editor.buffer)
  /\ IsUtf8(Content(editor))
  /\ MatchIndices(Content(editor), NewTerm) # <<>>
  /\ editor.isearch.current >= Len(MatchIndices(Content(editor), NewTerm))

\* C30: in every state reachable by dispatching messages, a non-empty match
\* list has the match cursor index strictly below its length, and no sequence
\* of appends, removals and confirms in the search prompt makes the search
\* engine index past the end of its match list.
C30_MatchCursorInRange ==
  /\ CursorInRange(editor.isearch)
  /\ ~IndexedPastEnd

---------------------------------------------------------------------------
(* C31 *)

\* The messages main passes to update (Quit ends the loop before it)
Dispatchable ==
  {Msg(k) : k \in {"InsertNewLine", "InsertTab", "DeleteUnderCursor",
                   "DeleteBeforeCursor", "CutToEndOfLine", "Undo", "Redo",
                   "ForwardOneChar", "BackwardOneChar", "JumpToBeginningOfLine",
                   "JumpToEndOfLine", "JumpToNextLine", "JumpToPreviousLine",
                   "Noop", "UserManual", "Search"}}
    \cup {MsgInsert(c) : c \in {ChA, ChB, Ch2}}
    \cup {MsgSave(ok) : ok \in BOOLEAN}

\* update took e to a and left alone everything but the cursor offset, the
\* search state and the flags SAVED and PROMPT
OnlySearched(e, a) ==
  /\ Logical(a.buffer) = Logical(e.buffer)
  /\ a.buffer.gap_len = e.buffer.gap_len
  /\ a.buffer.len = e.buffer.len
  /\ a.undo_manager = e.undo_manager
  /\ a.flags \ {SAVED_MASK, PROMPT_MASK} = e.flags \ {SAVED_MASK, PROMPT_MASK}
  /\ a.top = e.top

\* C31: no message dispatched while the search prompt is active changes the
\* logical content of the buffer, the undo log, the redo log or the Dirty
\* flag; only the cursor offset, the search state, the Saved flag and the
\* SearchPrompt flag may change.
C31_PromptLeavesTextAlone ==
  is_prompted(editor) =>
    \A m \in Dispatchable :
      ~Panicked(update(editor, m)) => OnlySearched(editor, update(editor, m))

\* The prompt is open over an edited buffer with a pending undo log, and a
\* confirm moves the cursor to another match
C31_Witness ==
  /\ is_prompted(editor)
  /\ is_modified(editor)
  /\ editor.undo_manager.undos # <<>>
  /\ editor.isearch.ids # <<>>
  /\ ~Panicked(update(editor, Msg("InsertNewLine")))
  /\ update(editor, Msg("InsertNewLine")).buffer.iptr # editor.buffer.iptr

---------------------------------------------------------------------------
(* C32 *)

\* The bytes of s at offsets [o, o + Len(term)) are the term
MatchesAt(s, o, term) ==
  /\ o + Len(term) <= Len(s)
  /\ SubSeq(s, o + 1, o + Len(term)) = term

\* C32: in every reachable state with a non-empty match list the search
\* prompt is active, the term is non-empty and every listed offset is the
\* offset of an occurrence of the term in the current logical content: the
\* match list is never stale.
C32_MatchListIsFresh ==
  editor.isearch.ids # <<>> =>
    /\ is_prompted(editor)
    /\ editor.isearch.term # <<>>
    /\ \A i \in 1..Len(editor.isearch.ids) :
         MatchesAt(Content(editor), editor.isearch.ids[i], editor.isearch.term)

\* A search over a text edited since it was loaded lists several matches
C32_Witness ==
  /\ is_prompted(editor)
  /\ Content(editor) # file
  /\ Len(editor.isearch.ids) >= 2
  /\ MatchesAt(Content(editor), editor.isearch.ids[2], editor.isearch.term)

---------------------------------------------------------------------------
(* C33 *)

\* C33: in every reachable state Dirty and Saved are never both set:
\* is_saved() implies not is_modified().
C33_SavedExcludesDirty ==
  is_saved(editor) => ~is_modified(editor)

\* A Save has just written an edited buffer
C33_Witness ==
  /\ Done >= 2
  /\ Kind(Done) = "Save"
  /\ is_modified(Pre(Done))
  /\ is_saved(editor)
  /\ ~is_modified(editor)

---------------------------------------------------------------------------
(* C34 *)

\* The stack q read from its top to its bottom
TopDown(q) == [i \in 1..Len(q) |-> q[Len(q) + 1 - i]]

\* The edit history of um: the undo stack bottom to top, then the redo stack
\* top to bottom
History(um) == um.undos \o TopDown(um.redos)

\* The history h holds no Checkpoint but possibly its last element
CheckpointOnlyLast(h) == \A i \in 1..Len(h) : h[i] = Checkpoint => i = Len(h)

\* C34: in every reachable state the edit history (undo stack bottom to top,
\* then redo stack top to bottom) contains at most one Checkpoint, and if
\* there is one it is the last element; a Checkpoint is never below another
\* command in the undo stack.
C34_CheckpointEndsHistory ==
  /\ CheckpointOnlyLast(History(editor.undo_manager))
  /\ CheckpointOnlyLast(editor.undo_manager.undos)

\* After an edit and a Save everything was undone: the Checkpoint lies at the
\* bottom of the redo stack under the edit
C34_Witness ==
  /\ editor.undo_manager.undos = <<>>
  /\ Len(editor.undo_manager.redos) >= 2
  /\ editor.undo_manager.redos[1] = Checkpoint

---------------------------------------------------------------------------
(* C35 *)

\* Row row is one of the h rows shown from top on
InsideViewport(top, row, h) == top <= row /\ row < top + h

\* make_cursor_visible((0, row), h) of an editor whose top is top gave a
AdjustedTo(a, top, row, h) ==
  /\ InsideViewport(a.top, row, h)
  /\ InsideViewport(top, row, h) => a.top = top

\* C35: for any viewport top, any cursor row and any row count h >= 1, after
\* make_cursor_visible((col, row), h) the new top satisfies
\* top <= row < top + h, and top is unchanged when the cursor row was already
\* inside [top, top + h); so after every redraw the cursor row is shown.
C35_CursorRowIsShown ==
  /\ \A top \in 0..MaxRow, row \in 0..MaxRow, h \in 1..MaxRow :
       AdjustedTo(make_cursor_visible([editor EXCEPT !.top = top],
                                      [cols |-> 0, rows |-> row], h),
                  top, row, h)
  /\ InsideViewport(editor.top, get_current_point(editor).rows, main_h)

\* The view has scrolled down and the last redraw scrolled it back up
C35_Witness ==
  /\ Done >= 3
  /\ Pre(Done).top > 0
  /\ editor.top < Pre(Done).top
  /\ InsideViewport(editor.top, get_current_point(editor).rows, main_h)

=============================================================================
